---- MODULE Spec2Model ----
(***************************************************************************)
(* Function-calling chat orchestrator of the LLM chat gateway:             *)
(*   backend/app/services/gemini_service.py                                *)
(*       GeminiService.get_chat_response_with_functions                    *)
(*       GeminiService._format_conversation_history                        *)
(*       GeminiService._initialize_models, _get_model_name                 *)
(*   backend/app/services/tools.py                                         *)
(*       FunctionTools.execute_function and the four registered tools      *)
(*   backend/app/routes/chat.py, backend/app/models/chat.py                *)
(*       the chat endpoint and the validators of its request models        *)
(*                                                                         *)
(* Specifications:                                                         *)
(*   Spec, SpecFormat, SpecResolve   one call of the service, over the     *)
(*                  requests of the loop, of the formatter, of the resolver*)
(*   SpecRoute      one request to the chat endpoint                       *)
(*   SpecLoop       two calls of the service on one event loop             *)
(*                                                                         *)
(* Python values are represented as follows.                               *)
(*   str            a TLA+ string (concatenation \o and Len are computed)  *)
(*   dict           a record; a dict with other keys is a record with      *)
(*                  another DOMAIN                                         *)
(*   keyword args   a set of <<parameter, value>> pairs                    *)
(*   list           a sequence                                             *)
(*   bytes          a record [data, size]: an identity and the length      *)
(*   MIME type      a sequence <<type, subtype>>, so that                  *)
(*                  startswith('image/') is computed, <<>> for None        *)
(*   Part           a record tagged by kind: "text", "function_call",      *)
(*                  "function_response", "bytes", "other"                  *)
(***************************************************************************)
EXTENDS Integers, Sequences, FiniteSets, TLC

VARIABLES
    request,                    \* the arguments of the call
    pc,                         \* position in get_chat_response_with_functions
    file_content_map,           \* filename -> [content, mime_type]
    processed_filenames,        \* filenames attached while formatting history
    contents,                   \* the conversation content sent to the provider
    function_calls_made,        \* accumulated function-call records
    response_parts,             \* text of the final answer
    call_count,                 \* index of the loop iteration
    parts,                      \* parts of the model turn being handled
    function_responses,         \* responses of the tool calls of this iteration
    result,                     \* the returned dict, once returned
    error,                      \* the message of the raised GeminiServiceError
    invocations,                \* number of generate_content calls issued
    turns,                      \* the provider's answers, in order
    catalog,                    \* the service's models and model_aliases
    model_name,                 \* the identifier the resolver returned
    form,                       \* the form the chat endpoint received
    http_response,              \* the response of the chat endpoint
    tasks,                      \* the requests running on one event loop
    thread,                     \* the task that holds the event loop's thread
    sent,                       \* the content passed to each generate_content call
    frames                      \* the local variables of each request on the event loop

vars ==
    <<request, pc, file_content_map, processed_filenames, contents,
      function_calls_made, response_parts, call_count, parts,
      function_responses, result, error, invocations, turns, catalog,
      model_name, form, http_response, tasks, thread, sent, frames>>

(***************************************************************************)
(* Bounds of the model.                                                    *)
(***************************************************************************)
MaxCalls == 3       \* largest max_function_calls of a request
MaxHistory == 2     \* longest conversation history
MaxFiles == 2       \* most uploaded files

(***************************************************************************)
(* Generic helpers on sequences.                                           *)
(***************************************************************************)
Range(s) == {s[i] : i \in 1..Len(s)}

(***************************************************************************)
(* tools.py: the tool registry.                                            *)
(***************************************************************************)
\* FunctionTools._register_functions: the registered names.
functions == {"get_weather", "calculate_math", "get_current_time", "convert_currency"}

\* The parameters of each registered tool without a default value.
RequiredParams(function_name) ==
    CASE function_name = "get_weather" -> {"location"}
      [] function_name = "calculate_math" -> {"expression"}
      [] function_name = "get_current_time" -> {}
      [] function_name = "convert_currency" -> {"amount", "from_currency", "to_currency"}

\* All the parameters of each registered tool.
AllowedParams(function_name) ==
    CASE function_name = "get_weather" -> {"location", "units"}
      [] function_name = "calculate_math" -> {"expression"}
      [] function_name = "get_current_time" -> {"timezone"}
      [] function_name = "convert_currency" -> {"amount", "from_currency", "to_currency"}

Keys(parameters) == {kv[1] : kv \in parameters}

\* parameters[key], or default when the key is absent.
Arg(parameters, key, default) ==
    IF key \in Keys(parameters)
    THEN (CHOOSE kv \in parameters : kv[1] = key)[2]
    ELSE default

\* func(**parameters) raises TypeError before the body runs when a required
\* parameter is missing or an unexpected keyword is given.
BindRaises(function_name, parameters) ==
    \/ ~(RequiredParams(function_name) \subseteq Keys(parameters))
    \/ ~(Keys(parameters) \subseteq AllowedParams(function_name))

\* Outcomes of a call: [raised |-> FALSE, value |-> dict] or
\* [raised |-> TRUE, message |-> str(e)].
Returned(value) == [raised |-> FALSE, value |-> value]
Raised(message) == [raised |-> TRUE, message |-> message]

\* random.choice(conditions): the mock weather is random.
Conditions == {"sunny", "rainy"}

\* datetime.datetime.now(): the clock readings a call can observe.
Clock == {"2026-01-01T00:00:00", "2026-01-01T00:00:01"}

\* The value "#unhashable" stands for an argument of a wrong type (a list).
get_weather(parameters) ==
    LET location == Arg(parameters, "location", "")
        units == Arg(parameters, "units", "celsius")
    IN  IF units = "#unhashable"
        THEN {Raised("unhashable type: 'list'")}
        ELSE {Returned([location |-> location, units |-> units, condition |-> c,
                        description |-> "Current weather in " \o location])
                : c \in Conditions}

\* eval() of the expression: the expressions the model draws from, with the
\* branch each takes.
calculate_math(parameters) ==
    LET expression == Arg(parameters, "expression", "")
    IN  CASE expression = "2+2" ->
                {Returned([expression |-> expression, result |-> "4", type |-> "int"])}
          [] expression = "1/0" ->
                {Returned([error |-> "Calculation error: division by zero"])}
          [] OTHER ->
                {Returned([error |-> "Invalid characters in expression"])}

get_current_time(parameters) ==
    LET timezone == Arg(parameters, "timezone", "UTC")
    IN  {Returned([current_time |-> now, timezone |-> timezone]) : now \in Clock}

convert_currency(parameters) ==
    LET amount == Arg(parameters, "amount", "")
        from_currency == Arg(parameters, "from_currency", "")
        to_currency == Arg(parameters, "to_currency", "")
    IN  IF "#unhashable" \in {amount, from_currency, to_currency}
        THEN {Raised("'list' object has no attribute 'upper'")}
        ELSE {Returned([original_amount |-> amount, from_currency |-> from_currency,
                        to_currency |-> to_currency,
                        note |-> "Mock exchange rates for demo purposes"])}

\* func(**parameters) for a registered name.
CallTool(function_name, parameters) ==
    IF BindRaises(function_name, parameters)
    THEN {Raised("got an unexpected or missing keyword argument")}
    ELSE CASE function_name = "get_weather" -> get_weather(parameters)
           [] function_name = "calculate_math" -> calculate_math(parameters)
           [] function_name = "get_current_time" -> get_current_time(parameters)
           [] function_name = "convert_currency" -> convert_currency(parameters)

\* The dict execute_function returns for one outcome of the tool.
WrapOutcome(outcome) ==
    IF outcome.raised
    THEN [success |-> FALSE, error |-> outcome.message]
    ELSE [success |-> TRUE, result |-> outcome.value]

NotFound(function_name) ==
    [error |-> "Function '" \o function_name \o "' not found"]

\* Faulty variant of execute_function: without the try/except, an exception
\* of the tool reaches the caller.
execute_function_unguarded(function_name, parameters) ==
    IF function_name \notin functions
    THEN {Returned(NotFound(function_name))}
    ELSE {IF o.raised THEN o ELSE Returned(WrapOutcome(o)) :
            o \in CallTool(function_name, parameters)}

\* FunctionTools.execute_function: the set of outcomes of a call (the tools
\* read the clock and random numbers). The lookup miss returns a dict; the
\* try/except turns every exception of the tool into a dict.
execute_function(function_name, parameters) ==
    IF function_name \notin functions
    THEN {Returned(NotFound(function_name))}
    ELSE {Returned(WrapOutcome(o)) : o \in CallTool(function_name, parameters)}

(***************************************************************************)
(* gemini_service.py: the model catalog and the resolver.                  *)
(***************************************************************************)
\* Model names are sequences of characters, so that lower() and the
\* substring test are computed.
Gemini == <<"g", "e", "m", "i", "n", "i", "-">>
Pro == <<"p", "r", "o">>
Flash == <<"f", "l", "a", "s", "h">>
V25 == <<"2", ".", "5", "-">>
V20 == <<"2", ".", "0", "-">>
V15 == <<"1", ".", "5", "-">>

\* self.models after _initialize_models fell back to the hardcoded catalog:
\* the keys in insertion order (each maps to itself).
models ==
    << Gemini \o V25 \o Pro, Gemini \o V25 \o Flash,
       Gemini \o V20 \o Pro, Gemini \o V20 \o Flash,
       Gemini \o V15 \o Pro, Gemini \o V15 \o Flash >>

\* self.model_aliases of the fallback catalog, as <<alias, target>> pairs.
model_aliases ==
    { <<Gemini \o Pro, Gemini \o V25 \o Pro>>,
      <<Gemini \o Flash, Gemini \o V25 \o Flash>> }

\* str.lower() of one character, for the upper-case letters the model uses.
LowerChar(c) ==
    CASE c = "F" -> "f"
      [] c = "L" -> "l"
      [] c = "A" -> "a"
      [] c = "S" -> "s"
      [] c = "H" -> "h"
      [] c = "P" -> "p"
      [] c = "R" -> "r"
      [] c = "O" -> "o"
      [] OTHER -> c

Lower(name) == [i \in 1..Len(name) |-> LowerChar(name[i])]

\* a in b, for strings.
Contains(a, b) ==
    \E k \in 0..(Len(b) - Len(a)) : SubSeq(b, k + 1, k + Len(a)) = a

\* The state of a GeminiService: self.models as the sequence of its
\* <<short name, identifier>> items in insertion order, self.model_aliases
\* as the set of the <<alias, target>> pairs whose target is set.
Catalog(ms, aliases) == [models |-> ms, aliases |-> aliases]

\* Lines 88-102: the hardcoded catalog.
FallbackCatalog ==
    Catalog([i \in 1..Len(models) |-> <<models[i], models[i]>>], model_aliases)

\* model_name.split('/')[-1]
ShortName(name) ==
    LET slashes == { i \in 1..Len(name) : name[i] = "/" }
    IN  IF slashes = {} THEN name
        ELSE SubSeq(name, (CHOOSE i \in slashes : \A j \in slashes : j <= i) + 1,
                    Len(name))

\* excluded_keywords of lines 113-116.
excluded_keywords ==
    << <<"p", "r", "e", "v", "i", "e", "w">>,
       <<"e", "x", "p">>,
       <<"e", "x", "p", "e", "r", "i", "m", "e", "n", "t", "a", "l">>,
       <<"t", "h", "i", "n", "k", "i", "n", "g">>,
       <<"l", "i", "v", "e">>,
       <<"t", "t", "s">>,
       <<"n", "a", "t", "i", "v", "e", "-", "a", "u", "d", "i", "o">>,
       <<"d", "i", "a", "l", "o", "g">>,
       <<"i", "m", "a", "g", "e", "-", "g", "e", "n", "e", "r", "a", "t", "i", "o", "n">> >>

Vision == <<"v", "i", "s", "i", "o", "n">>
ProVision == Pro \o <<"-">> \o Vision

\* GeminiService._is_stable_gemini_model
_is_stable_gemini_model(short_name) ==
    LET model_lower == Lower(short_name)
    IN  /\ Len(model_lower) >= Len(Gemini)
        /\ SubSeq(model_lower, 1, Len(Gemini)) = Gemini
        /\ \A k \in 1..Len(excluded_keywords) :
               ~Contains(excluded_keywords[k], model_lower)
        /\ ~(Contains(Vision, model_lower) /\ ~Contains(ProVision, model_lower))

\* Lines 70-83: the loop over the listed models, from the catalog so far.
RECURSIVE PopulateModels(_, _)
PopulateModels(models_list, cat) ==
    IF models_list = <<>> THEN cat
    ELSE LET name == Head(models_list)
             short_name == ShortName(name)
             others == SelectSeq(cat.models, LAMBDA e : e[1] # short_name)
             listed == IF Len(others) = Len(cat.models)
                       THEN Append(cat.models, <<short_name, name>>)
                       ELSE [i \in 1..Len(cat.models) |->
                               IF cat.models[i][1] = short_name
                               THEN <<short_name, name>> ELSE cat.models[i]]
             has(alias) == \E al \in cat.aliases : al[1] = alias
             aliases ==
                 IF Contains(Pro, Lower(short_name)) /\ ~has(Gemini \o Pro)
                 THEN cat.aliases \cup { <<Gemini \o Pro, short_name>> }
                 ELSE IF Contains(Flash, Lower(short_name)) /\ ~has(Gemini \o Flash)
                 THEN cat.aliases \cup { <<Gemini \o Flash, short_name>> }
                 ELSE cat.aliases
         IN  PopulateModels(Tail(models_list),
                            IF _is_stable_gemini_model(short_name)
                            THEN Catalog(listed, aliases) ELSE cat)

\* GeminiService._initialize_models: the catalog after the listing of the
\* provider's models returned (a sequence of names) or raised.
_initialize_models(listing) ==
    IF listing.raised THEN FallbackCatalog
    ELSE PopulateModels(listing.value, Catalog(<<>>, {}))

\* list(self.models.keys())
available_models == [i \in 1..Len(catalog.models) |-> catalog.models[i][1]]

\* Faulty variant of _get_model_name: the catalog is looked up before the
\* aliases.
_get_model_name_catalog_first(requested) ==
    LET aliased ==
            IF requested \in Range(available_models) THEN requested
            ELSE IF \E al \in catalog.aliases : al[1] = requested
            THEN (CHOOSE al \in catalog.aliases : al[1] = requested)[2]
            ELSE requested
        similar_models ==
            SelectSeq(available_models,
                      LAMBDA m : Contains(Lower(aliased), Lower(m)))
        identifier(key) ==
            (CHOOSE e \in Range(catalog.models) : e[1] = key)[2]
    IN  IF aliased \in Range(available_models) THEN Returned(identifier(aliased))
        ELSE IF similar_models # <<>> THEN Returned(identifier(similar_models[1]))
        ELSE [raised |-> TRUE,
              message |-> "Model not supported. Available models: [...]",
              available_models |-> available_models]

\* GeminiService._get_model_name: Returned(identifier) or Raised(message).
_get_model_name(requested) ==
    LET aliased ==
            IF \E al \in catalog.aliases : al[1] = requested
            THEN (CHOOSE al \in catalog.aliases : al[1] = requested)[2]
            ELSE requested
        similar_models ==
            SelectSeq(available_models,
                      LAMBDA m : Contains(Lower(aliased), Lower(m)))
        identifier(key) ==
            (CHOOSE e \in Range(catalog.models) : e[1] = key)[2]
    IN  IF aliased \in Range(available_models) THEN Returned(identifier(aliased))
        ELSE IF similar_models # <<>> THEN Returned(identifier(similar_models[1]))
        ELSE [raised |-> TRUE,
              message |-> "Model not supported. Available models: [...]",
              available_models |-> available_models]

(***************************************************************************)
(* gemini_service.py: formatting of the history and of the new message.    *)
(***************************************************************************)
TextPart(text) == [kind |-> "text", text |-> text]
BytesPart(content, mime_type) ==
    [kind |-> "bytes", data |-> content, mime_type |-> mime_type]
Content(role, ps) == [role |-> role, parts |-> ps]

EmptyMap == [k \in {} |-> <<>>]
MapPut(m, k, v) == [x \in (DOMAIN m) \cup {k} |-> IF x = k THEN v ELSE m[x]]

\* Lines 287-293: filename -> (content, content_type); a later upload of
\* the same filename replaces the earlier one; unnamed uploads are skipped.
RECURSIVE BuildFileContentMap(_, _)
BuildFileContentMap(files, m) ==
    IF files = <<>> THEN m
    ELSE LET file == Head(files)
         IN  BuildFileContentMap(
                 Tail(files),
                 IF file.filename # ""
                 THEN MapPut(m, file.filename,
                             [content |-> file.content, mime_type |-> file.content_type])
                 ELSE m)

\* The attachments of one history message that have uploaded bytes, as parts.
RECURSIVE AttachmentParts(_, _)
AttachmentParts(attachments, fmap) ==
    IF attachments = <<>> THEN <<>>
    ELSE LET attachment == Head(attachments)
             rest == AttachmentParts(Tail(attachments), fmap)
         IN  IF attachment.name \in DOMAIN fmap
             THEN <<BytesPart(fmap[attachment.name].content,
                              fmap[attachment.name].mime_type)>> \o rest
             ELSE rest

\* The parts of one history message: the text when non-empty, then the
\* attachments found in the map.
MessageParts(msg, fmap) ==
    (IF msg.content # "" THEN <<TextPart(msg.content)>> ELSE <<>>)
        \o AttachmentParts(msg.attachments, fmap)

\* Faulty variant of FormatHistory: an entry is appended for every message,
\* also when it has no parts.
RECURSIVE FormatHistoryKeepingEmpty(_, _)
FormatHistoryKeepingEmpty(messages, fmap) ==
    IF messages = <<>> THEN <<>>
    ELSE LET msg == Head(messages)
             role == IF msg.role = "user" THEN "user" ELSE "model"
         IN  <<Content(role, MessageParts(msg, fmap))>>
                 \o FormatHistoryKeepingEmpty(Tail(messages), fmap)

\* GeminiService._format_conversation_history: the formatted entries.
RECURSIVE FormatHistory(_, _)
FormatHistory(messages, fmap) ==
    IF messages = <<>> THEN <<>>
    ELSE LET msg == Head(messages)
             role == IF msg.role = "user" THEN "user" ELSE "model"
             ps == MessageParts(msg, fmap)
         IN  (IF ps # <<>> THEN <<Content(role, ps)>> ELSE <<>>)
                 \o FormatHistory(Tail(messages), fmap)

\* Faulty variant of ProcessedFilenames: the attached names are not recorded.
ProcessedFilenamesForgotten(messages, fmap) == {}

\* GeminiService._format_conversation_history: processed_filenames, the
\* names of the attachments that were attached.
ProcessedFilenames(messages, fmap) ==
    UNION { {a.name : a \in Range(messages[i].attachments)} \cap DOMAIN fmap :
              i \in 1..Len(messages) }

\* max_size of line 311.
max_size == 10 * 1024 * 1024

\* mime_type.startswith(prefix + '/'); <<>> is None.
MimeStartsWith(mime_type, prefix) ==
    Len(mime_type) >= 2 /\ mime_type[1] = prefix

\* Lines 305-321: the parts of the uploaded files for the new message.
\* Returned(parts), or Raised(message) at the first oversized file.
RECURSIVE NewFileParts(_, _, _)
NewFileParts(files, fmap, processed) ==
    IF files = <<>> THEN Returned(<<>>)
    ELSE LET file == Head(files)
             rest == NewFileParts(Tail(files), fmap, processed)
         IN  IF file.filename # "" /\ file.filename \notin processed
             THEN LET content == fmap[file.filename].content
                      mime_type == fmap[file.filename].mime_type
                  IN  IF content.size > max_size
                      THEN Raised("File " \o file.filename \o " exceeds maximum size of 10485760 bytes")
                      ELSE IF rest.raised THEN rest
                      ELSE IF MimeStartsWith(mime_type, "image")
                                \/ MimeStartsWith(mime_type, "audio")
                      THEN Returned(<<BytesPart(content, mime_type)>> \o rest.value)
                      ELSE rest
             ELSE rest

\* n spaces.
RECURSIVE Spaces(_)
Spaces(n) == IF n = 0 THEN "" ELSE " " \o Spaces(n - 1)

\* not message.strip(), for messages whose only whitespace is the space.
StripIsEmpty(message) == message = Spaces(Len(message))

\* Lines 276-329: Returned(contents) or Raised(message of the exception).
\* Lines 277-329 for a file map as lines 287-293 built it:
\* Returned(contents) or Raised(message).
ContentsFrom(req, fmap) ==
    LET resolved == _get_model_name(req.model)
        history == FormatHistory(req.conversation_history, fmap)
        processed == ProcessedFilenames(req.conversation_history, fmap)
        file_parts == NewFileParts(req.files, fmap, processed)
    IN  IF StripIsEmpty(req.message) THEN Raised("Message cannot be empty")
        ELSE IF resolved.raised THEN resolved
        ELSE IF file_parts.raised THEN file_parts
        ELSE Returned(history
                \o <<Content("user", <<TextPart(req.message)>> \o file_parts.value)>>)

InitialContents(req) ==
    ContentsFrom(req, BuildFileContentMap(req.files, EmptyMap))

\* Faulty variant of ServiceError: the original message is dropped.
ServiceErrorGeneric(message) == "Failed to get response with functions"

\* The message of the GeminiServiceError raised by the outer except (line 448).
ServiceError(message) == "Failed to get response with functions: " \o message

(***************************************************************************)
(* The provider: what one generate_content call can answer.                *)
(***************************************************************************)
FunctionCallPart(name, args) == [kind |-> "function_call", name |-> name, args |-> args]
OtherPart == [kind |-> "other"]

\* The scripted model turns (response.candidates[0].content.parts).
ProviderTurns ==
    { <<FunctionCallPart("get_current_time", {})>>,
      <<TextPart("Let me check."), FunctionCallPart("get_weather", {})>>,
      <<FunctionCallPart("nonexistent_tool", {}),
        FunctionCallPart("convert_currency",
            {<<"amount", "#unhashable">>, <<"from_currency", "USD">>, <<"to_currency", "EUR">>}),
        TextPart("and"),
        FunctionCallPart("get_weather", {<<"location", "Paris">>})>>,
      <<TextPart("Done")>>,
      <<TextPart("Hello"), TextPart(""), OtherPart, TextPart("world")>>,
      <<TextPart("")>>,
      <<>> }

\* A response with candidates whose first candidate has these parts.
PartsResponse(ps) == [kind |-> "parts", parts |-> ps]

\* The answers of a call: a turn, no candidates at all, a candidate whose
\* content is None (reading .parts raises AttributeError), or an exception
\* of the SDK.
ProviderResponses ==
    {PartsResponse(ps) : ps \in ProviderTurns}
        \cup { [kind |-> "no_candidates"],
               [kind |-> "no_content",
                message |-> "'NoneType' object has no attribute 'parts'"],
               [kind |-> "raise", message |-> "503 UNAVAILABLE"],
               [kind |-> "raise",
                message |-> "403 PERMISSION_DENIED: API key not valid"] }

(***************************************************************************)
(* gemini_service.py: get_chat_response_with_functions.                    *)
(***************************************************************************)
\* Lines 370-374: the partition of the parts of a turn.
IsFunctionCall(part) == part.kind = "function_call"
IsText(part) == part.kind = "text" /\ part.text # ""

function_calls_in_response(ps) == SelectSeq(ps, IsFunctionCall)
text_parts(ps) == [i \in 1..Len(SelectSeq(ps, IsText)) |-> SelectSeq(ps, IsText)[i].text]

\* " ".join(strings)
RECURSIVE Join(_)
Join(strings) ==
    IF strings = <<>> THEN ""
    ELSE IF Len(strings) = 1 THEN strings[1]
    ELSE strings[1] \o " " \o Join(Tail(strings))

Fallback == "I apologize, but I couldn't generate a response."

\* Faulty variant of final_response: the parts are joined without a separator.
RECURSIVE Concat(_)
Concat(strings) ==
    IF strings = <<>> THEN "" ELSE strings[1] \o Concat(Tail(strings))

final_response_unspaced(rparts) == IF rparts # <<>> THEN Concat(rparts) ELSE Fallback

\* Line 434.
final_response(rparts) == IF rparts # <<>> THEN Join(rparts) ELSE Fallback

\* Faulty variant of InRange: off by one, one iteration too many.
InRangeInclusive(count, max_function_calls) == count <= max_function_calls

\* Line 341: whether range(max_function_calls) yields index count.
InRange(count, max_function_calls) == count < max_function_calls

\* Faulty variant of LoopHead: an exhausted budget is treated as an error.
LoopHeadRaising(count, max_function_calls) ==
    IF InRange(count, max_function_calls) THEN "call_model" ELSE "failed"

\* Where the loop goes when it is at its head with index count.
LoopHead(count, max_function_calls) ==
    IF InRange(count, max_function_calls) THEN "call_model" ELSE "finish"

\* Lines 276-338: validation, file map, model resolution, formatting.
StartRequest ==
    /\ pc = "start"
    /\ LET initial == InitialContents(request)
       IN  /\ file_content_map' =
                  IF StripIsEmpty(request.message) THEN file_content_map
                  ELSE BuildFileContentMap(request.files, EmptyMap)
           /\ IF initial.raised
              THEN /\ pc' = "failed"
                   /\ error' = ServiceError(initial.message)
                   /\ UNCHANGED <<contents, processed_filenames>>
              ELSE /\ pc' = LoopHead(0, request.max_function_calls)
                   /\ contents' = initial.value
                   /\ processed_filenames' =
                          ProcessedFilenames(request.conversation_history,
                                             file_content_map')
                   /\ UNCHANGED error
    /\ model_name' =
           IF StripIsEmpty(request.message) \/ _get_model_name(request.model).raised
           THEN model_name
           ELSE _get_model_name(request.model).value
    /\ UNCHANGED <<request, function_calls_made, response_parts, call_count,
                   parts, function_responses, result, invocations, turns, catalog,
                   form, http_response, tasks, thread,
                   sent, frames>>

\* Faulty variant of ResponseBranch: a turn without parts is not told from
\* a turn with function calls, so the loop goes on after it.
ResponseBranchContinuing(response) ==
    IF response.kind \in {"raise", "no_content"} THEN "raise"
    ELSE IF response.kind = "no_candidates" THEN "empty"
    ELSE IF response.parts = <<>> THEN "calls"
    ELSE IF function_calls_in_response(response.parts) # <<>> THEN "calls"
    ELSE "final"

\* Lines 356-431: which branch the answer of generate_content takes.
\*   "raise"  the call raised, or reading the parts raised
\*   "empty"  no candidates, or no parts (line 429)
\*   "calls"  the parts hold a function call (line 377)
\*   "final"  parts without a function call (line 423)
ResponseBranch(response) ==
    IF response.kind \in {"raise", "no_content"} THEN "raise"
    ELSE IF response.kind = "no_candidates" THEN "empty"
    ELSE IF response.parts = <<>> THEN "empty"
    ELSE IF function_calls_in_response(response.parts) # <<>> THEN "calls"
    ELSE "final"

\* Faulty variant of NextResponseParts: the text interleaved with function
\* calls is kept for the final answer too.
NextResponsePartsKeepingText(rparts, ps) == rparts \o text_parts(ps)

\* Lines 377-427: response_parts after a turn with these parts; only a turn
\* without function calls extends it.
NextResponseParts(rparts, ps) ==
    IF function_calls_in_response(ps) # <<>> THEN rparts
    ELSE rparts \o text_parts(ps)

\* Faulty variant of OnException: the call is issued again.
OnExceptionRetrying == "call_model"

\* Lines 446-448: where an exception of generate_content leads. The except
\* clause raises GeminiServiceError; _retry_with_backoff is not used.
OnException == "failed"

\* Faulty variant of ModelTurn: only the function calls of the turn are kept.
ModelTurnCallsOnly(ps) ==
    Content("model", [i \in 1..Len(function_calls_in_response(ps)) |->
                         [kind |-> "function_call",
                          name |-> function_calls_in_response(ps)[i].name,
                          args |-> function_calls_in_response(ps)[i].args]])

\* Lines 379-384: the entry appended for the model's turn, its parts as
\* they came.
ModelTurn(ps) == Content("model", ps)

\* Lines 356-384 and 423-431: one generate_content call and the branch on
\* its answer.
InvokeModel ==
    /\ pc = "call_model"
    /\ \E response \in ProviderResponses :
        /\ invocations' = invocations + 1
        /\ turns' = Append(turns, response)
        /\ CASE ResponseBranch(response) = "raise" ->
                /\ pc' = OnException
                /\ error' = ServiceError(response.message)
                /\ UNCHANGED <<contents, response_parts, parts, function_responses>>
             [] ResponseBranch(response) = "empty" ->
                /\ pc' = "finish"
                /\ UNCHANGED <<contents, response_parts, parts, function_responses, error>>
             [] ResponseBranch(response) = "calls" ->
                /\ contents' = Append(contents, ModelTurn(response.parts))
                /\ parts' = response.parts
                /\ function_responses' = <<>>
                /\ response_parts' = NextResponseParts(response_parts, response.parts)
                /\ pc' = "execute"
                /\ UNCHANGED error
             [] ResponseBranch(response) = "final" ->
                /\ response_parts' = NextResponseParts(response_parts, response.parts)
                /\ pc' = "finish"
                /\ UNCHANGED <<contents, parts, function_responses, error>>
    /\ sent' = Append(sent, contents)
    /\ UNCHANGED <<request, file_content_map, processed_filenames,
                   function_calls_made, call_count, result,
                   catalog, model_name, form, http_response, tasks, thread,
                   frames>>

\* Faulty variant of AppendRecord: only the calls that succeeded are recorded.
AppendRecordOfSuccess(made, func_call, function_result) ==
    IF "error" \in DOMAIN function_result THEN made
    ELSE Append(made, [name |-> func_call.name,
                       arguments |-> func_call.args,
                       result |-> function_result])

\* Lines 398-402: the record of one executed call is appended.
AppendRecord(made, func_call, function_result) ==
    Append(made, [name |-> func_call.name,
                  arguments |-> func_call.args,
                  result |-> function_result])

\* Faulty variant of NextCall: the calls are taken from the last part back.
NextCallReversed(calls, responses) == calls[Len(calls) - Len(responses)]

\* Line 388: the for loop takes the function calls in the order of the
\* parts; the next one is the one after those already answered.
NextCall(calls, responses) == calls[Len(responses) + 1]

\* Lines 388-409: the next tool call of the turn is executed and recorded.
ExecuteFunction ==
    /\ pc = "execute"
    /\ Len(function_responses) < Len(function_calls_in_response(parts))
    /\ LET func_call == NextCall(function_calls_in_response(parts), function_responses)
       IN  \E outcome \in execute_function(func_call.name, func_call.args) :
            IF outcome.raised
            THEN /\ pc' = "failed"
                 /\ error' = ServiceError(outcome.message)
                 /\ UNCHANGED <<function_calls_made, function_responses>>
            ELSE /\ function_calls_made' =
                        AppendRecord(function_calls_made, func_call, outcome.value)
                 /\ function_responses' =
                        Append(function_responses,
                               [name |-> func_call.name, response |-> outcome.value])
                 /\ UNCHANGED <<pc, error>>
    /\ UNCHANGED <<request, file_content_map, processed_filenames, contents,
                   response_parts, call_count, parts, result, invocations, turns,
                   catalog, model_name, form, http_response, tasks, thread,
                   sent, frames>>

FunctionResponsePart(fr) ==
    [kind |-> "function_response", name |-> fr.name, response |-> fr.response]

\* Faulty variant of ToolResultTurns: the responses are not appended.
ToolResultTurnsDropped(responses) == <<>>

\* Faulty variant of ToolResultTurns: one user turn per function response.
ToolResultTurnsPerCall(responses) ==
    [i \in 1..Len(responses) |-> Content("user", <<FunctionResponsePart(responses[i])>>)]

\* Lines 412-418: the turns appended for the responses of one iteration.
ToolResultTurns(responses) ==
    IF responses # <<>>
    THEN <<Content("user", [i \in 1..Len(responses) |-> FunctionResponsePart(responses[i])])>>
    ELSE <<>>

\* Lines 411-421: the responses are appended and the loop continues.
AppendFunctionResponses ==
    /\ pc = "execute"
    /\ Len(function_responses) = Len(function_calls_in_response(parts))
    /\ contents' = contents \o ToolResultTurns(function_responses)
    /\ call_count' = call_count + 1
    /\ pc' = LoopHead(call_count + 1, request.max_function_calls)
    /\ UNCHANGED <<request, file_content_map, processed_filenames,
                   function_calls_made, response_parts, parts,
                   function_responses, result, error, invocations, turns,
                   catalog, model_name, form, http_response, tasks, thread,
                   sent, frames>>

\* Lines 433-444: the result is built and returned. elapsed_time, a reading
\* of the clock, is left out of the dict.
Finish ==
    /\ pc = "finish"
    /\ result' = [message |-> final_response(response_parts),
                  function_calls |-> function_calls_made,
                  model |-> request.model]
    /\ pc' = "done"
    /\ UNCHANGED <<request, file_content_map, processed_filenames, contents,
                   function_calls_made, response_parts, call_count, parts,
                   function_responses, error, invocations, turns,
                   catalog, model_name, form, http_response, tasks, thread,
                   sent, frames>>

(***************************************************************************)
(* The requests.                                                           *)
(***************************************************************************)
Attachment(name) == [name |-> name]
ChatMessage(role, content, attachments) ==
    [role |-> role, content |-> content, attachments |-> attachments]
UploadFile(filename, data, size, content_type) ==
    [filename |-> filename, content |-> [data |-> data, size |-> size],
     content_type |-> content_type]

HistoryMessages ==
    { ChatMessage("user", "look", <<Attachment("a.png")>>),
      ChatMessage("assistant", "ok", <<>>),
      ChatMessage("user", "again", <<Attachment("a.png"), Attachment("b.wav")>>),
      \* a message whose text is empty: the formatter tests msg.content
      ChatMessage("assistant", "", <<Attachment("b.wav")>>) }

\* Two uploads share the filename a.png; each upload has its own bytes.
UploadFiles ==
    { UploadFile("a.png", "A1", 5, <<"image", "png">>),
      UploadFile("a.png", "A2", max_size + 1, <<"image", "png">>),
      UploadFile("b.wav", "B1", max_size, <<"audio", "wav">>),
      UploadFile("c.txt", "C1", 1, <<"text", "plain">>) }

SeqsUpTo(S, n) == UNION { [1..k -> S] : k \in 0..n }

ChatRequest(message, history, model, max_function_calls, files) ==
    [message |-> message, conversation_history |-> history, model |-> model,
     max_function_calls |-> max_function_calls, files |-> files]

DefaultModel == Gemini \o V25 \o Flash

\* Requests that exercise the loop: every iteration budget, with and
\* without history and files; and the requests rejected before the loop.
LoopRequests ==
    { ChatRequest("hello", h, DefaultModel, n, f) :
        h \in { <<>>, <<ChatMessage("user", "look", <<Attachment("a.png")>>)>> },
        n \in 1..MaxCalls,
        f \in { <<>>, <<UploadFile("a.png", "A1", 5, <<"image", "png">>)>> } }
    \cup { ChatRequest("  ", <<>>, DefaultModel, 1, <<>>),
           ChatRequest("hello", <<>>, <<"g", "p", "t">>, 1, <<>>),
           ChatRequest("hello", <<>>, DefaultModel, 1,
                       <<UploadFile("a.png", "A2", max_size + 1, <<"image", "png">>)>>) }

\* Requests that exercise the formatting: every history and every list of
\* uploads within the bounds.
FormatRequests ==
    { ChatRequest("hello", h, DefaultModel, 1, f) :
        h \in SeqsUpTo(HistoryMessages, MaxHistory),
        f \in SeqsUpTo(UploadFiles, MaxFiles) }

\* The initial values of the variables of the endpoint and of the event
\* loop, for a call of the service alone.
NoForm == <<>>
NoResponse == <<>>
NoTasks == <<>>
NoFrames == <<>>

InitWith(requests) ==
    /\ request \in requests
    /\ pc = "start"
    /\ form = NoForm
    /\ http_response = NoResponse
    /\ tasks = NoTasks
    /\ thread = 0
    /\ file_content_map = EmptyMap
    /\ processed_filenames = {}
    /\ contents = <<>>
    /\ function_calls_made = <<>>
    /\ response_parts = <<>>
    /\ call_count = 0
    /\ parts = <<>>
    /\ function_responses = <<>>
    /\ result = <<>>
    /\ error = ""
    /\ invocations = 0
    /\ turns = <<>>
    /\ model_name = <<>>
    /\ sent = <<>>
    /\ frames = NoFrames

\* The listing of the provider's models failed when the service was built.
ListingFailed == Raised("listing failed")

Init == InitWith(LoopRequests) /\ catalog = _initialize_models(ListingFailed)
InitFormat == InitWith(FormatRequests) /\ catalog = _initialize_models(ListingFailed)

\* The names of the provider's listing are prefixed.
ModelsPrefix == <<"m", "o", "d", "e", "l", "s", "/">>

\* What client.models.list() did when the service was built: it raised, or
\* it returned names of which some are not stable Gemini models, with a
\* model named like the alias gemini-pro, or with no pro model at all.
Listings ==
    { ListingFailed,
      Returned(<< ModelsPrefix \o Gemini \o V15 \o Pro,
                  ModelsPrefix \o Gemini \o Pro,
                  ModelsPrefix \o Gemini \o V25 \o Flash \o <<"-">> \o excluded_keywords[1],
                  ModelsPrefix \o <<"e", "m", "b", "e", "d", "d", "i", "n", "g">>,
                  ModelsPrefix \o Gemini \o V25 \o Flash >>),
      Returned(<< ModelsPrefix \o Gemini \o V25 \o Flash >>) }

\* The names a caller asks for: an alias, a catalog name, parts of catalog
\* names in upper and lower case, and a name no catalog entry contains.
RequestedModels ==
    { Gemini \o Pro, DefaultModel, <<"F", "L", "A", "S", "H">>, Pro,
      <<"g", "p", "t">> }

\* Requests that exercise the resolver.
ResolveRequests ==
    { ChatRequest("hello", <<>>, m, 1, <<>>) : m \in RequestedModels }

InitResolve ==
    /\ InitWith(ResolveRequests)
    /\ catalog \in { _initialize_models(listing) : listing \in Listings }

(***************************************************************************)
(* routes/chat.py and models/chat.py: the chat endpoint.                   *)
(***************************************************************************)
\* An exception: its class and str(e) (the detail of an HTTPException).
Exc(class, message) == [class |-> class, message |-> message]
HTTPException(status_code, detail) ==
    [class |-> "HTTPException", status_code |-> status_code, message |-> detail]

\* The form fields of a request (lines 68-77). conversation_history is a
\* text: one json.loads accepts, with the list it denotes, or one it
\* rejects. system_prompt is None or a text. temperature and max_tokens
\* keep their defaults.
Form(message, conversation_history, model, max_function_calls, files, system_prompt) ==
    [message |-> message, conversation_history |-> conversation_history,
     model |-> model, max_function_calls |-> max_function_calls, files |-> files,
     system_prompt |-> system_prompt]
NoPrompt == [given |-> FALSE]
Prompt(text) == [given |-> TRUE, text |-> text]
HistoryJson(messages) == [json |-> TRUE, value |-> messages]
NotJson == [json |-> FALSE, value |-> <<>>]

\* models/chat.py lines 35-48: ChatMessage(**msg) validates.
ValidChatMessage(msg) ==
    /\ msg.role \in {"user", "assistant"}
    /\ Len(msg.content) >= 1
    /\ ~StripIsEmpty(msg.content)

\* models/chat.py lines 26-29: allowed_types of FileAttachment.
allowed_types ==
    { <<"image", "jpeg">>, <<"image", "png">>, <<"image", "gif">>,
      <<"image", "webp">>, <<"audio", "mpeg">>, <<"audio", "wav">>,
      <<"audio", "mp3">>, <<"audio", "m4a">>, <<"audio", "webm">> }

\* file.content_type or ""
ContentTypeText(mime_type) ==
    IF mime_type = <<>> THEN "" ELSE mime_type[1] \o "/" \o mime_type[2]

\* Lines 91-108: the attachments of the named files, or the first exception
\* of the loop.
RECURSIVE FileAttachments(_)
FileAttachments(files) ==
    IF files = <<>> THEN Returned(<<>>)
    ELSE LET file == Head(files)
             rest == FileAttachments(Tail(files))
         IN  IF file.filename = "" THEN rest
             ELSE IF ~(\/ MimeStartsWith(file.content_type, "image")
                       \/ MimeStartsWith(file.content_type, "audio"))
             THEN Raised(HTTPException(400, "Unsupported file type: "
                             \o ContentTypeText(file.content_type)))
             ELSE IF file.content_type \notin allowed_types
             THEN Raised(Exc("ValidationError", "Unsupported MIME type: "
                             \o ContentTypeText(file.content_type)))
             ELSE IF rest.raised THEN rest
             ELSE Returned(<<Attachment(file.filename)>> \o rest.value)

\* models/chat.py lines 110-118: the fields of ChatWithFunctionsRequest.
ChatWithFunctionsRequestFields ==
    { "message", "conversation_history", "model", "temperature",
      "max_tokens", "max_function_calls", "attachments" }

\* Lines 123-130: the attributes of chat_request read for the call.
ForwardedAttributes ==
    { "message", "conversation_history", "model", "temperature",
      "max_tokens", "max_function_calls", "system_prompt" }

\* models/chat.py lines 132 and 117: the limits of the validators.
MaxHistoryLength == 50
MaxFunctionCallsLimit == 10

\* Lines 81-131: the body of the try up to the call of the service:
\* Returned(arguments of the call) or Raised(exception).
TryBody(f) ==
    LET history == f.conversation_history.value
        attachments == FileAttachments(f.files)
    IN  IF \/ ~f.conversation_history.json
           \/ \E i \in 1..Len(history) : ~ValidChatMessage(history[i])
        THEN Raised(HTTPException(400, "Invalid conversation history format"))
        ELSE IF attachments.raised THEN attachments
        ELSE IF Len(f.message) < 1 \/ StripIsEmpty(f.message)
        THEN Raised(Exc("ValidationError", "Message cannot be empty"))
        ELSE IF Len(history) > MaxHistoryLength
        THEN Raised(Exc("ValidationError",
                        "Conversation history too long (max 50 messages)"))
        ELSE IF f.max_function_calls \notin 1..MaxFunctionCallsLimit
        THEN Raised(Exc("ValidationError", "max_function_calls out of range"))
        ELSE IF ~(ForwardedAttributes \subseteq ChatWithFunctionsRequestFields)
        THEN Raised(Exc("AttributeError",
                 "'ChatWithFunctionsRequest' object has no attribute 'system_prompt'"))
        ELSE Returned(ChatRequest(f.message, history, f.model,
                                  f.max_function_calls, f.files))

\* Lines 143-148: the HTTPException the except clauses raise for an
\* exception of the try body.
ExceptClauses(e) ==
    IF e.class = "GeminiServiceError" THEN HTTPException(500, e.message)
    ELSE HTTPException(500, "Internal server error")

\* Lines 66-148: the chat endpoint, up to its response or to the call of
\* the service.
chat ==
    /\ pc = "chat"
    /\ LET body == TryBody(form)
       IN  IF body.raised
           THEN /\ pc' = "responded"
                /\ http_response' = ExceptClauses(body.message)
                /\ UNCHANGED request
           ELSE /\ pc' = "start"
                /\ request' = body.value
                /\ UNCHANGED http_response
    /\ UNCHANGED <<file_content_map, processed_filenames, contents,
                   function_calls_made, response_parts, call_count, parts,
                   function_responses, result, error, invocations, turns,
                   catalog, model_name, form, tasks, thread,
                   sent, frames>>

\* The forms: a blank message, a history that is not JSON or holds an
\* invalid message, unknown models, budgets outside the limits, uploads
\* of unsupported types; and well-formed requests, with and without a
\* system prompt.
Forms ==
    { Form(m, h, model, n, f, sp) :
        sp \in { NoPrompt, Prompt("Be brief.") },
        m \in { "hello", "  " },
        h \in { NotJson } \cup { HistoryJson(x) : x \in SeqsUpTo(HistoryMessages, 1) },
        model \in { DefaultModel, <<"g", "p", "t">> },
        n \in { 0, 1, MaxFunctionCallsLimit + 1 },
        f \in SeqsUpTo(UploadFiles, MaxFiles) }

NoRequest == <<>>

InitRoute ==
    /\ form \in Forms
    /\ pc = "chat"
    /\ request = NoRequest
    /\ http_response = NoResponse
    /\ catalog = _initialize_models(ListingFailed)
    /\ file_content_map = EmptyMap
    /\ processed_filenames = {}
    /\ contents = <<>>
    /\ function_calls_made = <<>>
    /\ response_parts = <<>>
    /\ call_count = 0
    /\ parts = <<>>
    /\ function_responses = <<>>
    /\ result = <<>>
    /\ error = ""
    /\ invocations = 0
    /\ turns = <<>>
    /\ model_name = <<>>
    /\ sent = <<>>
    /\ frames = NoFrames
    /\ tasks = NoTasks
    /\ thread = 0

NextRoute == chat

(***************************************************************************)
(* Two requests of get_chat_response_with_functions on one event loop.     *)
(* A coroutine holds the thread of the event loop from the moment it is    *)
(* run until it suspends at an await or ends. The awaits of the function   *)
(* are file.read() and file.seek(0) of lines 291-292; generate_content     *)
(* (lines 356-360) is an ordinary call, made on the thread of the loop.    *)
(***************************************************************************)
TaskIds == {1, 2}

\* The variables of a single call and of the endpoint, which the event
\* loop leaves alone.
callVars ==
    <<request, pc, file_content_map, processed_filenames, contents,
      function_calls_made, response_parts, call_count, parts,
      function_responses, result, error, invocations, turns, catalog,
      model_name, form, http_response, sent>>

\* A request: its position, the awaits left in the loop over its files,
\* its budget of iterations, its arguments, and the answers the provider
\* and the tools have given it so far.
\*   "pending"    scheduled on the loop, not yet run
\*   "reading"    running, at an await of the loop over the files
\*   "suspended"  suspended at that await
\*   "call_model" running, about to call generate_content
\*   "in_model"   inside generate_content: the invocation is outstanding
\*   "done", "failed"
Task(position, awaits, budget, req) ==
    [pc |-> position, awaits |-> awaits, budget |-> budget, request |-> req,
     answers |-> <<>>]

\* Where a running task goes on: to its next await, or to the loop.
AfterAwaits(awaits) == IF awaits > 0 THEN "reading" ELSE "call_model"

\* Lines 288, 323, 337-338, 439-444 and 448: the local variables of a call,
\* before the call has assigned them.
NewFrame ==
    [file_content_map |-> EmptyMap, contents |-> <<>>,
     function_calls_made |-> <<>>, response_parts |-> <<>>,
     result |-> <<>>, error |-> ""]

\* Faulty variant of FrameOf: the variables are kept on the GeminiService
\* instance, which the requests share.
FrameOnService(t) == 1

\* Lines 288-338: file_content_map, contents, function_calls_made and
\* response_parts are names bound in the frame of the call; each call of
\* the coroutine function has a frame of its own.
FrameOf(t) == t

\* Line 290: the uploads that have a filename.
NamedFiles(req) == SelectSeq(req.files, LAMBDA file : file.filename # "")

\* Lines 291-293: the frame after an await of the loop over the files,
\* with `left` awaits to go. After the seek (an even number is left) the
\* file is put into the map.
AfterAwait(frame, req, left) ==
    IF left % 2 = 0
    THEN LET file == NamedFiles(req)[Len(NamedFiles(req)) - left \div 2]
         IN  [frame EXCEPT !.file_content_map =
                 MapPut(@, file.filename,
                        [content |-> file.content, mime_type |-> file.content_type])]
    ELSE frame

\* Lines 439-444: the dict the call returns.
Finished(frame, req) ==
    [frame EXCEPT !.result = [message |-> final_response(frame.response_parts),
                              function_calls |-> frame.function_calls_made,
                              model |-> req.model]]

\* Lines 295-341: with no await left the coroutine runs on, without
\* suspending, through resolution and formatting to the loop.
RunOn(req, awaits, frame) ==
    IF AfterAwaits(awaits) = "reading" THEN [pc |-> "reading", frame |-> frame]
    ELSE LET initial == ContentsFrom(req, frame.file_content_map)
             prepared == [frame EXCEPT !.contents = initial.value,
                                       !.function_calls_made = <<>>,
                                       !.response_parts = <<>>]
         IN  IF initial.raised
             THEN [pc |-> "failed",
                   frame |-> [frame EXCEPT !.error = ServiceError(initial.message)]]
             ELSE IF LoopHead(0, req.max_function_calls) = "finish"
             THEN [pc |-> "done", frame |-> Finished(prepared, req)]
             ELSE [pc |-> "call_model", frame |-> prepared]

\* The positions at which a coroutine holds the thread of the loop.
Holds(position) == position \in {"reading", "call_model", "in_model"}

\* The event loop runs the coroutine of a request it has accepted (lines
\* 276-288).
RunTask(t) ==
    /\ thread = 0
    /\ tasks[t].pc = "pending"
    /\ LET req == tasks[t].request
           frame == [frames[FrameOf(t)] EXCEPT !.file_content_map = EmptyMap]
           next == IF StripIsEmpty(req.message)
                   THEN [pc |-> "failed",
                         frame |-> [frames[FrameOf(t)] EXCEPT
                                      !.error = ServiceError("Message cannot be empty")]]
                   ELSE RunOn(req, tasks[t].awaits, frame)
       IN  /\ tasks' = [tasks EXCEPT ![t].pc = next.pc]
           /\ frames' = [frames EXCEPT ![FrameOf(t)] = next.frame]
           /\ thread' = IF Holds(next.pc) THEN t ELSE 0
    /\ UNCHANGED callVars

\* Lines 291-292: await file.read() or await file.seek(0). The awaited
\* call completes at once (a file held in memory) or suspends the
\* coroutine, which gives the thread back to the loop.
AwaitFile(t) ==
    /\ thread = t
    /\ tasks[t].pc = "reading"
    /\ LET left == tasks[t].awaits - 1
           req == tasks[t].request
           next == RunOn(req, left, AfterAwait(frames[FrameOf(t)], req, left))
       IN  \/ /\ tasks' = [tasks EXCEPT ![t].awaits = left, ![t].pc = next.pc]
              /\ frames' = [frames EXCEPT ![FrameOf(t)] = next.frame]
              /\ thread' = IF Holds(next.pc) THEN t ELSE 0
           \/ /\ tasks' = [tasks EXCEPT ![t].awaits = left, ![t].pc = "suspended"]
              /\ thread' = 0
              /\ UNCHANGED frames
    /\ UNCHANGED callVars

\* The awaited call has completed and the loop resumes the coroutine.
ResumeTask(t) ==
    /\ thread = 0
    /\ tasks[t].pc = "suspended"
    /\ LET left == tasks[t].awaits
           req == tasks[t].request
           next == RunOn(req, left, AfterAwait(frames[FrameOf(t)], req, left))
       IN  /\ tasks' = [tasks EXCEPT ![t].pc = next.pc]
           /\ frames' = [frames EXCEPT ![FrameOf(t)] = next.frame]
           /\ thread' = IF Holds(next.pc) THEN t ELSE 0
    /\ UNCHANGED callVars

\* Lines 356-360: generate_content is called; the call does not return
\* before the provider has answered, and the coroutine keeps the thread.
CallGenerateContent(t) ==
    /\ thread = t
    /\ tasks[t].pc = "call_model"
    /\ tasks' = [tasks EXCEPT ![t].pc = "in_model"]
    /\ UNCHANGED thread
    /\ UNCHANGED frames
    /\ UNCHANGED callVars

\* The function calls of an answer that the loop executes.
CallsIn(response) ==
    IF ResponseBranch(response) = "calls"
    THEN function_calls_in_response(response.parts)
    ELSE <<>>

\* Line 392 for each call of a turn, in order: the sequences of outcomes
\* the tools can give.
RECURSIVE ExecuteAll(_)
ExecuteAll(calls) ==
    IF calls = <<>> THEN {<<>>}
    ELSE { <<o>> \o rest :
             o \in execute_function(Head(calls).name, Head(calls).args),
             rest \in ExecuteAll(Tail(calls)) }

\* Lines 398-402 for the first n calls of a turn.
RECURSIVE AppendRecords(_, _, _, _)
AppendRecords(made, calls, outcomes, n) ==
    IF n = 0 THEN made
    ELSE AppendRecord(AppendRecords(made, calls, outcomes, n - 1),
                      calls[n], outcomes[n].value)

\* Lines 362-431 and 446-448: the frame after generate_content has
\* answered and the tools of the turn, if any, have given these outcomes.
AfterAnswer(frame, response, outcomes) ==
    CASE ResponseBranch(response) = "raise" ->
            [frame EXCEPT !.error = ServiceError(response.message)]
      [] ResponseBranch(response) = "empty" -> frame
      [] ResponseBranch(response) = "final" ->
            [frame EXCEPT !.response_parts = NextResponseParts(@, response.parts)]
      [] ResponseBranch(response) = "calls" ->
            LET calls == CallsIn(response)
                raising == { k \in 1..Len(calls) : outcomes[k].raised }
                first == CHOOSE k \in raising : \A j \in raising : k <= j
                responses == [k \in 1..Len(calls) |->
                                [name |-> calls[k].name,
                                 response |-> outcomes[k].value]]
            IN  IF raising # {}
                THEN [frame EXCEPT
                        !.contents = Append(@, ModelTurn(response.parts)),
                        !.function_calls_made =
                            AppendRecords(@, calls, outcomes, first - 1),
                        !.error = ServiceError(outcomes[first].message)]
                ELSE [frame EXCEPT
                        !.contents = Append(@, ModelTurn(response.parts))
                                        \o ToolResultTurns(responses),
                        !.function_calls_made =
                            AppendRecords(@, calls, outcomes, Len(calls)),
                        !.response_parts = NextResponseParts(@, response.parts)]

\* The answers of the provider to the requests on the loop: a turn with a
\* tool call, a final text, and an exception.
LoopAnswers ==
    { PartsResponse(<<TextPart("Let me check."), FunctionCallPart("get_weather", {})>>),
      PartsResponse(<<TextPart("Done")>>),
      [kind |-> "raise", message |-> "503 UNAVAILABLE"] }

\* Lines 362-448: generate_content returns or raises, and the coroutine
\* runs on: it executes the tools and calls again while the budget lasts,
\* or it ends.
GenerateContentReturns(t) ==
    /\ thread = t
    /\ tasks[t].pc = "in_model"
    /\ \E response \in LoopAnswers :
         \E outcomes \in ExecuteAll(CallsIn(response)) :
           LET frame == AfterAnswer(frames[FrameOf(t)], response, outcomes)
               raised == frame.error # ""
               goes_on == /\ ~raised
                          /\ ResponseBranch(response) = "calls"
                          /\ tasks[t].budget > 1
           IN  /\ tasks' = [tasks EXCEPT
                     ![t].budget = @ - 1,
                     ![t].answers = Append(@, [response |-> response,
                                               outcomes |-> outcomes]),
                     ![t].pc = IF raised THEN OnException
                               ELSE IF goes_on THEN "call_model"
                               ELSE "done"]
               /\ frames' = [frames EXCEPT ![FrameOf(t)] =
                                IF raised \/ goes_on THEN frame
                                ELSE Finished(frame, tasks[t].request)]
               /\ thread' = IF goes_on THEN t ELSE 0
    /\ UNCHANGED callVars

\* The uploads of the requests on the loop.
LoopFiles ==
    <<UploadFile("a.png", "A1", 5, <<"image", "png">>),
      UploadFile("b.wav", "B1", max_size, <<"audio", "wav">>),
      UploadFile("c.txt", "C1", 1, <<"text", "plain">>)>>

\* The request of task t with n uploads: the two requests differ in their
\* message and in their history.
LoopRequest(t, n, budget, shape) ==
    ChatRequest(IF shape = "blank" THEN "  "
                ELSE IF t = 1 THEN "one" ELSE "two",
                IF t = 1 THEN <<ChatMessage("user", "look", <<Attachment("a.png")>>)>>
                ELSE <<>>,
                IF shape = "unknown_model" THEN <<"g", "p", "t">> ELSE DefaultModel,
                budget,
                SubSeq(LoopFiles, 1, IF n < Len(LoopFiles) THEN n ELSE Len(LoopFiles)))

LoopTask(t, n, budget, shape) ==
    Task("pending", 2 * Len(NamedFiles(LoopRequest(t, n, budget, shape))), budget,
         LoopRequest(t, n, budget, shape))

\* Two requests, with and without files to read, with a budget of one
\* iteration and of MaxCalls, well-formed or not.
InitLoop ==
    /\ tasks \in { [t \in TaskIds |-> LoopTask(t, n[t], budget[t], shape[t])] :
                     n \in [TaskIds -> 0..MaxFiles],
                     budget \in [TaskIds -> {1, MaxCalls}],
                     shape \in [TaskIds -> {"plain", "blank", "unknown_model"}] }
    /\ frames = [t \in TaskIds |-> NewFrame]
    /\ thread = 0
    /\ pc = "event_loop"
    /\ request = NoRequest
    /\ form = NoForm
    /\ http_response = NoResponse
    /\ catalog = _initialize_models(ListingFailed)
    /\ file_content_map = EmptyMap
    /\ processed_filenames = {}
    /\ contents = <<>>
    /\ function_calls_made = <<>>
    /\ response_parts = <<>>
    /\ call_count = 0
    /\ parts = <<>>
    /\ function_responses = <<>>
    /\ result = <<>>
    /\ error = ""
    /\ invocations = 0
    /\ turns = <<>>
    /\ model_name = <<>>
    /\ sent = <<>>

LoopStep(t) ==
    \/ RunTask(t)
    \/ AwaitFile(t)
    \/ ResumeTask(t)
    \/ CallGenerateContent(t)
    \/ GenerateContentReturns(t)

NextLoop ==
    \/ \E t \in TaskIds : RunTask(t)
    \/ \E t \in TaskIds : AwaitFile(t)
    \/ \E t \in TaskIds : ResumeTask(t)
    \/ \E t \in TaskIds : CallGenerateContent(t)
    \/ \E t \in TaskIds : GenerateContentReturns(t)

Next ==
    \/ StartRequest
    \/ InvokeModel
    \/ ExecuteFunction
    \/ AppendFunctionResponses
    \/ Finish

Spec == Init /\ [][Next]_vars
SpecFormat == InitFormat /\ [][Next]_vars
SpecResolve == InitResolve /\ [][Next]_vars
SpecRoute == InitRoute /\ [][NextRoute]_vars
SpecLoop == InitLoop /\ [][NextLoop]_vars

(***************************************************************************)
(* Vocabulary of the properties.                                           *)
(***************************************************************************)
LastTurn == turns[Len(turns)]

\* The turn holds at least one tool-call part.
HasCalls(turn) ==
    /\ turn.kind = "parts"
    /\ \E i \in 1..Len(turn.parts) : turn.parts[i].kind = "function_call"

\* The non-empty texts of the text parts of a turn, in order.
TextsOf(ps) ==
    LET kept == SelectSeq(ps, LAMBDA q : q.kind = "text" /\ q.text # "")
    IN  [i \in 1..Len(kept) |-> kept[i].text]

\* The turn holds text and no tool call.
IsTextOnly(turn) ==
    /\ turn.kind = "parts"
    /\ ~HasCalls(turn)
    /\ TextsOf(turn.parts) # <<>>

\* The provider returned no candidates, or a turn with no parts.
IsEmptyAnswer(turn) ==
    \/ turn.kind = "no_candidates"
    \/ turn.kind = "parts" /\ turn.parts = <<>>

\* The first n strings joined by a single space.
RECURSIVE SpaceJoined(_, _)
SpaceJoined(strings, n) ==
    IF n = 0 THEN ""
    ELSE IF n = 1 THEN strings[1]
    ELSE SpaceJoined(strings, n - 1) \o " " \o strings[n]

\* The tool-call parts of the first n turns, in order.
RECURSIVE CallsOf(_, _)
CallsOf(ts, n) ==
    IF n = 0 THEN <<>>
    ELSE CallsOf(ts, n - 1)
            \o (IF ts[n].kind = "parts"
                THEN SelectSeq(ts[n].parts, LAMBDA q : q.kind = "function_call")
                ELSE <<>>)

\* The records name the calls, in order, with their arguments.
RecordsMatch(records, calls) ==
    /\ Len(records) = Len(calls)
    /\ \A i \in 1..Len(records) :
        /\ records[i].name = calls[i].name
        /\ records[i].arguments = calls[i].args

\* Every turn received holds a tool call.
AllTurnsHaveCalls == \A i \in 1..Len(turns) : HasCalls(turns[i])

\* The budget was used up by turns that all hold tool calls.
Exhausted ==
    /\ Len(turns) = request.max_function_calls
    /\ AllTurnsHaveCalls

(***************************************************************************)
(* C1. A request never issues more than max_function_calls model           *)
(* invocations, whether it returns, fails, or is still running.            *)
(***************************************************************************)
C1_AtMostMaxInvocations ==
    invocations <= request.max_function_calls

\* A request that returned after using its whole budget of several calls.
C1_Witness ==
    /\ pc = "done"
    /\ request.max_function_calls >= 2
    /\ invocations = request.max_function_calls

(***************************************************************************)
(* C2. After k turns with tool calls and then a turn with text and no tool *)
(* call, the orchestrator stops after exactly k+1 invocations; the message *)
(* is the texts of the last turn joined by one space and the records are   *)
(* the executed calls. Scripted case: get_current_time, then "Done".       *)
(***************************************************************************)
ScriptedTurns ==
    << PartsResponse(<<FunctionCallPart("get_current_time", {})>>),
       PartsResponse(<<TextPart("Done")>>) >>

C2_ToolTurnsThenText ==
    (turns # <<>> /\ IsTextOnly(LastTurn)) =>
        /\ pc \in {"finish", "done"}
        /\ \A i \in 1..(Len(turns) - 1) : HasCalls(turns[i])
        /\ invocations = Len(turns)
        /\ pc = "done" =>
            /\ result.message =
                   SpaceJoined(TextsOf(LastTurn.parts), Len(TextsOf(LastTurn.parts)))
            /\ RecordsMatch(result.function_calls, CallsOf(turns, Len(turns)))
            /\ turns = ScriptedTurns =>
                /\ result.message = "Done"
                /\ Len(result.function_calls) = 1
                /\ result.function_calls[1].name = "get_current_time"
                /\ invocations = 2

\* The scripted case has returned.
C2_Witness ==
    /\ pc = "done"
    /\ turns = ScriptedTurns

(***************************************************************************)
(* C3. When every turn holds a tool call, the request does not fail, makes *)
(* exactly max_function_calls invocations and returns the fallback string. *)
(***************************************************************************)
C3_AllToolTurnsFallback ==
    (turns # <<>> /\ AllTurnsHaveCalls) =>
        /\ pc # "failed"
        /\ pc \in {"finish", "done"} => Exhausted /\ invocations = request.max_function_calls
        /\ pc = "done" => result.message = Fallback

\* A budget of several calls used up by tool-call turns, and returned.
C3_Witness ==
    /\ pc = "done"
    /\ request.max_function_calls >= 2
    /\ Exhausted

(***************************************************************************)
(* C4, as claimed. When the budget is exhausted the message is the text of *)
(* the last turn, and the fallback string only when that turn had no text. *)
(***************************************************************************)
C4_LastTurnTextReturned ==
    (pc = "done" /\ Exhausted) =>
        result.message =
            IF TextsOf(LastTurn.parts) # <<>>
            THEN SpaceJoined(TextsOf(LastTurn.parts), Len(TextsOf(LastTurn.parts)))
            ELSE Fallback

(***************************************************************************)
(* C4, amended. When the budget is exhausted the message is the fallback   *)
(* string even when the last turn had text between its tool calls: no text *)
(* of a turn with tool calls reaches the message.                          *)
(***************************************************************************)
C4_ExhaustedTextDiscarded ==
    (pc \in {"finish", "done"} /\ Exhausted /\ TextsOf(LastTurn.parts) # <<>>) =>
        /\ response_parts = <<>>
        /\ pc = "done" => result.message = Fallback

\* Exhausted by a last turn that had text next to its tool call.
C4_Witness ==
    /\ pc = "done"
    /\ Exhausted
    /\ TextsOf(LastTurn.parts) # <<>>

(***************************************************************************)
(* C5. An answer without candidates or without parts is the last answer of *)
(* the request: no invocation follows it, the request does not fail, and   *)
(* it returns the fallback string with the records of the earlier turns.   *)
(***************************************************************************)
C5_EmptyAnswerEndsRequest ==
    \A i \in 1..Len(turns) :
        IsEmptyAnswer(turns[i]) =>
            /\ i = Len(turns)
            /\ invocations = i
            /\ pc \in {"finish", "done"}
            /\ RecordsMatch(function_calls_made, CallsOf(turns, i - 1))
            /\ pc = "done" =>
                /\ result.message = Fallback
                /\ result.function_calls = function_calls_made

\* An empty answer after a turn whose tool calls were executed.
C5_Witness ==
    /\ pc = "done"
    /\ Len(turns) >= 2
    /\ IsEmptyAnswer(LastTurn)
    /\ Len(result.function_calls) >= 1

(***************************************************************************)
(* C6. A tool failure never aborts the request: a call of an unknown name  *)
(* or of a tool that raises is executed without failing the request, its   *)
(* error-tagged result is recorded and answered, and once the calls of the *)
(* turn are executed the loop goes on to its next model invocation.        *)
(***************************************************************************)
\* The call names no registered tool, or the tool raises on its arguments.
ToolFails(func_call) ==
    \/ func_call.name \notin
          {"get_weather", "calculate_math", "get_current_time", "convert_currency"}
    \/ \E o \in CallTool(func_call.name, func_call.args) : o.raised

Executing ==
    /\ pc = "execute"
    /\ Len(function_responses) < Len(function_calls_in_response(parts))

C6_ExecuteStep ==
    Executing =>
        LET func_call == function_calls_in_response(parts)[Len(function_responses) + 1]
        IN  /\ pc' = "execute"
            /\ Len(function_calls_made') = Len(function_calls_made) + 1
            /\ Len(function_responses') = Len(function_responses) + 1
            /\ function_responses'[Len(function_responses')].response
                   = function_calls_made'[Len(function_calls_made')].result
            /\ ToolFails(func_call) =>
                   "error" \in DOMAIN function_calls_made'[Len(function_calls_made')].result

C6_ContinueStep ==
    (pc = "execute" /\ ~Executing) =>
        pc' = IF call_count + 1 < request.max_function_calls
              THEN "call_model" ELSE "finish"

C7_UniformResultShape ==
    \A i \in 1..Len(function_calls_made) :
        LET r == function_calls_made[i].result
        IN  /\ "success" \in DOMAIN r
            /\ r.success \in BOOLEAN
            /\ ToolFails([name |-> function_calls_made[i].name,
                          args |-> function_calls_made[i].arguments]) =>
                   (~r.success /\ "error" \in DOMAIN r)

(***************************************************************************)
(* C8. Each completed iteration appended, after the model turn, exactly    *)
(* one user turn with one function-response part per tool call of the      *)
(* turn, the i-th part carrying the name and the result of the i-th call.  *)
(***************************************************************************)
\* Number of entries of the initial content.
Base == Len(InitialContents(request).value)

ToolResultTurnOf(j) == contents[Base + 2 * j]

C8_OneToolResultTurnPerIteration ==
    (pc # "start" /\ ~InitialContents(request).raised) =>
        /\ Len(contents) = Base + 2 * call_count + (IF pc = "execute" THEN 1 ELSE 0)
        /\ \A j \in 1..call_count :
            LET before == Len(CallsOf(turns, j - 1))
                calls == SubSeq(CallsOf(turns, j), before + 1, Len(CallsOf(turns, j)))
            IN  /\ contents[Base + 2 * j - 1] = Content("model", turns[j].parts)
                /\ ToolResultTurnOf(j).role = "user"
                /\ Len(calls) >= 1
                /\ Len(ToolResultTurnOf(j).parts) = Len(calls)
                /\ \A i \in 1..Len(calls) :
                    /\ ToolResultTurnOf(j).parts[i].kind = "function_response"
                    /\ ToolResultTurnOf(j).parts[i].name = calls[i].name
                    /\ ToolResultTurnOf(j).parts[i].response
                           = function_calls_made[before + i].result
                    /\ \E o \in execute_function(calls[i].name, calls[i].args) :
                           ~o.raised /\ o.value = ToolResultTurnOf(j).parts[i].response

\* Two iterations completed, one of them with several tool calls.
C8_Witness ==
    /\ pc = "done"
    /\ call_count >= 2
    /\ \E j \in 1..call_count : Len(ToolResultTurnOf(j).parts) >= 2

(***************************************************************************)
(* C9. At every point the function-call list holds one record {name,       *)
(* arguments, result} per tool execution performed so far, in execution    *)
(* order; on return its length is the number of tool-call parts of all the *)
(* turns received.                                                         *)
(***************************************************************************)
\* Number of tool executions performed so far.
Executed ==
    IF pc = "execute"
    THEN Len(CallsOf(turns, Len(turns) - 1)) + Len(function_responses)
    ELSE Len(CallsOf(turns, Len(turns)))

C9_OneRecordPerExecution ==
    /\ RecordsMatch(function_calls_made,
                    SubSeq(CallsOf(turns, Len(turns)), 1, Executed))
    /\ \A i \in 1..Len(function_calls_made) :
          /\ DOMAIN function_calls_made[i] = {"name", "arguments", "result"}
          /\ \E o \in execute_function(function_calls_made[i].name,
                                       function_calls_made[i].arguments) :
                ~o.raised /\ o.value = function_calls_made[i].result
    /\ pc = "done" =>
          /\ result.function_calls = function_calls_made
          /\ Len(result.function_calls) = Len(CallsOf(turns, Len(turns)))

\* In the middle of the second iteration: one of three calls executed.
C9_Witness ==
    /\ pc = "execute"
    /\ Len(turns) = 2
    /\ Len(function_calls_in_response(parts)) = 3
    /\ Len(function_responses) = 1
    /\ Len(function_calls_made) >= 2

(***************************************************************************)
(* Vocabulary of the properties of the initial content.                    *)
(***************************************************************************)
\* The request has been formatted and no model turn has been appended.
Formatted == pc = "call_model" /\ turns = <<>>

\* The positions <<message, attachment>> of the history that name a file.
References(name) ==
    LET history == request.conversation_history
    IN  UNION { { <<i, j>> : j \in { k \in 1..Len(history[i].attachments) :
                                      history[i].attachments[k].name = name } } :
                i \in 1..Len(history) }

\* The positions <<entry, part>> of entries from..to that hold the bytes
\* uploaded under a filename (each filename is uploaded with its own bytes).
BinaryParts(name, from, to) ==
    UNION { { <<i, j>> : j \in { k \in 1..Len(contents[i].parts) :
                                  /\ contents[i].parts[k].kind = "bytes"
                                  /\ contents[i].parts[k].data
                                         = file_content_map[name].content } } :
            i \in from..to }

\* The filenames referenced in the history that are uploaded in the request.
ReuploadedNames ==
    { name \in DOMAIN file_content_map : References(name) # {} }

(***************************************************************************)
(* C10, as claimed. A filename referenced in the history and uploaded in   *)
(* the request is a binary part exactly once in the initial content, also  *)
(* when several history messages reference it or it is uploaded twice.     *)
(***************************************************************************)
C10_AttachedExactlyOnce ==
    Formatted =>
        \A name \in ReuploadedNames :
            Cardinality(BinaryParts(name, 1, Len(contents))) = 1

(***************************************************************************)
(* C10, amended. A filename referenced in the history and uploaded in the  *)
(* request is a binary part once per history attachment that references    *)
(* it, each in the entry of its message, and never in the entry of the new *)
(* message, however many times it is uploaded: exactly once when a single  *)
(* history attachment references it.                                       *)
(***************************************************************************)
C10_AttachedOncePerReference ==
    Formatted =>
        \A name \in ReuploadedNames :
            /\ Cardinality(BinaryParts(name, 1, Len(contents)))
                   = Cardinality(References(name))
            /\ BinaryParts(name, Len(contents), Len(contents)) = {}
            /\ Cardinality(References(name)) = 1 =>
                   Cardinality(BinaryParts(name, 1, Len(contents))) = 1

\* A filename referenced once in the history and uploaded twice.
C10_Witness ==
    /\ Formatted
    /\ Len(request.files) = 2
    /\ request.files[1].filename = request.files[2].filename
    /\ request.files[1].filename \in ReuploadedNames
    /\ Cardinality(References(request.files[1].filename)) = 1

(***************************************************************************)
(* Vocabulary of C11.                                                      *)
(***************************************************************************)
\* The message has a non-empty text or an attachment with uploaded bytes.
Resolves(msg) ==
    \/ msg.content # ""
    \/ \E j \in 1..Len(msg.attachments) :
           msg.attachments[j].name \in DOMAIN file_content_map

\* The formatted history: the initial content without the new message.
FormattedHistory == SubSeq(contents, 1, Len(contents) - 1)

\* The entry is the formatted form of the message: its role, its text
\* first when it has one, and one binary part per resolvable attachment.
EntryOf(entry, msg) ==
    /\ entry.role = (IF msg.role = "user" THEN "user" ELSE "model")
    /\ entry.parts # <<>>
    /\ msg.content # "" => entry.parts[1] = TextPart(msg.content)
    /\ Cardinality({ k \in 1..Len(entry.parts) : entry.parts[k].kind = "bytes" })
           = Cardinality({ j \in 1..Len(msg.attachments) :
                             msg.attachments[j].name \in DOMAIN file_content_map })
    /\ Cardinality({ k \in 1..Len(entry.parts) : entry.parts[k].kind = "text" })
           = (IF msg.content # "" THEN 1 ELSE 0)

(***************************************************************************)
(* C11. The formatted history is the order-preserving subsequence of the   *)
(* history messages that resolve to at least one part: a message with      *)
(* empty text and no resolvable attachment is omitted, the others appear   *)
(* in their order, and the output is never longer than the history.        *)
(***************************************************************************)
C11_SubsequenceOfResolvingMessages ==
    Formatted =>
        LET kept == SelectSeq(request.conversation_history, Resolves)
        IN  /\ Len(FormattedHistory) = Len(kept)
            /\ Len(FormattedHistory) <= Len(request.conversation_history)
            /\ \A k \in 1..Len(kept) : EntryOf(FormattedHistory[k], kept[k])

\* A message that resolves to no part, followed by one that is kept.
C11_Witness ==
    /\ Formatted
    /\ Len(request.conversation_history) = 2
    /\ ~Resolves(request.conversation_history[1])
    /\ Resolves(request.conversation_history[2])
    /\ Len(FormattedHistory) = 1

(***************************************************************************)
(* Vocabulary of C12.                                                      *)
(***************************************************************************)
\* The filenames of the attachments of the history.
HistoryNames ==
    UNION { { request.conversation_history[i].attachments[j].name :
                j \in 1..Len(request.conversation_history[i].attachments) } :
            i \in 1..Len(request.conversation_history) }

\* The uploads that the history has not consumed.
NewUploads ==
    { i \in 1..Len(request.files) :
        /\ request.files[i].filename # ""
        /\ request.files[i].filename \notin HistoryNames }

\* The request failed with the size-limit error of the upload, and the
\* caller has no content and no result.
SizeLimitFailure(file) ==
    /\ pc = "failed"
    /\ error = ServiceError("File " \o file.filename
                    \o " exceeds maximum size of 10485760 bytes")
    /\ contents = <<>>
    /\ DOMAIN result = {}

(***************************************************************************)
(* C12, as claimed. An uploaded file that the history has not consumed     *)
(* and whose content has 10*1024*1024 + 1 bytes makes the whole request    *)
(* fail with a size-limit error and no partial content; a request whose    *)
(* new files have at most 10*1024*1024 bytes each is accepted: its         *)
(* content is formed.                                                      *)
(***************************************************************************)
C12_OversizedUploadFails ==
    pc # "start" =>
        /\ \A i \in NewUploads :
               request.files[i].content.size = 10 * 1024 * 1024 + 1
                   => \E j \in NewUploads : SizeLimitFailure(request.files[j])
        /\ (/\ \A i \in NewUploads :
                   request.files[i].content.size <= 10 * 1024 * 1024
            /\ ~StripIsEmpty(request.message)
            /\ ~_get_model_name(request.model).raised)
               => contents # <<>>

(***************************************************************************)
(* Vocabulary of C13.                                                      *)
(***************************************************************************)
\* The positions of the catalog entries whose name contains the requested
\* name, case-insensitively.
Containing(requested) ==
    { i \in 1..Len(catalog.models) :
        Contains(Lower(requested), Lower(catalog.models[i][1])) }

\* The request failed in the resolver, with the error that lists the catalog.
NotSupported ==
    /\ pc = "failed"
    /\ model_name = <<>>
    /\ invocations = 0
    /\ error = ServiceError("Model not supported. Available models: [...]")
    /\ _get_model_name(request.model).available_models
           = [i \in 1..Len(catalog.models) |-> catalog.models[i][1]]

\* The resolver returned the identifier.
ResolvedTo(identifier) ==
    /\ model_name = identifier
    /\ pc = "failed" => error # ServiceError("Model not supported. Available models: [...]")

(***************************************************************************)
(* C13. The resolver takes an exact alias match first; else an exact       *)
(* catalog match; else the first catalog entry, in catalog order, whose    *)
(* name contains the requested name case-insensitively; else it fails with *)
(* the 'not supported' error that lists the catalog. With gemini-2.5-pro   *)
(* in the catalog and the alias gemini-pro -> gemini-2.5-pro, gemini-pro   *)
(* resolves to the identifier of gemini-2.5-pro.                           *)
(***************************************************************************)
C13_ResolutionOrder ==
    (pc # "start" /\ ~StripIsEmpty(request.message)) =>
        LET requested == request.model
            targets == { al[2] : al \in { a \in catalog.aliases : a[1] = requested } }
            names == { catalog.models[i][1] : i \in 1..Len(catalog.models) }
            first == CHOOSE i \in Containing(requested) :
                         \A j \in Containing(requested) : i <= j
        IN  /\ IF targets # {}
               THEN \E t \in targets : ResolvedTo(catalog.models[
                        CHOOSE i \in 1..Len(catalog.models) : catalog.models[i][1] = t][2])
               ELSE IF requested \in names
               THEN ResolvedTo(catalog.models[
                        CHOOSE i \in 1..Len(catalog.models) :
                            catalog.models[i][1] = requested][2])
               ELSE IF Containing(requested) # {}
               THEN ResolvedTo(catalog.models[first][2])
               ELSE NotSupported
            /\ (/\ requested = Gemini \o Pro
                /\ <<Gemini \o Pro, Gemini \o V25 \o Pro>> \in catalog.aliases
                /\ Gemini \o V25 \o Pro \in names)
                   => \E i \in 1..Len(catalog.models) :
                          /\ catalog.models[i][1] = Gemini \o V25 \o Pro
                          /\ model_name = catalog.models[i][2]

\* The requested name is an alias and also the name of a catalog entry
\* with another identifier: the alias is taken.
C13_Witness ==
    /\ pc = "done"
    /\ \E al \in catalog.aliases :
           /\ al[1] = request.model
           /\ \E i, j \in 1..Len(catalog.models) :
                  /\ catalog.models[i][1] = request.model
                  /\ catalog.models[j][1] = al[2]
                  /\ catalog.models[i][2] # catalog.models[j][2]
                  /\ model_name = catalog.models[j][2]

(***************************************************************************)
(* C14, as claimed. On success the model field of the result is the        *)
(* identifier the resolver returned, the one used for the invocations, not *)
(* the alias or name the caller requested.                                 *)
(***************************************************************************)
C14_ModelFieldIsResolvedIdentifier ==
    pc = "done" => result.model = model_name

(***************************************************************************)
(* Vocabulary of C15 and C16.                                              *)
(***************************************************************************)
\* An exception was raised while the request was resolved or formatted.
RaisedAtStart == pc # "start" /\ InitialContents(request).raised

\* The answer is an exception: generate_content raised, or reading the
\* parts of its response raised.
IsException(response) == response.kind \in {"raise", "no_content"}

(***************************************************************************)
(* C15. An exception raised while the model is resolved, the content is    *)
(* formatted or the model is invoked, at any iteration, makes the request  *)
(* fail with one GeminiServiceError that carries the message of the        *)
(* original exception; the caller gets no result: no message text and none *)
(* of the records accumulated before the failure. A returned result comes  *)
(* with no error.                                                          *)
(***************************************************************************)
C15_FailureIsOneServiceError ==
    /\ RaisedAtStart =>
           /\ pc = "failed"
           /\ turns = <<>>
           /\ error = "Failed to get response with functions: "
                          \o InitialContents(request).message
    /\ \A i \in 1..Len(turns) : IsException(turns[i]) =>
           /\ pc = "failed"
           /\ i = Len(turns)
           /\ error = "Failed to get response with functions: " \o turns[i].message
    /\ pc = "failed" => DOMAIN result = {}
    /\ pc = "done" => error = ""

\* The provider raised after a tool call had been executed and recorded.
C15_Witness ==
    /\ pc = "failed"
    /\ Len(turns) >= 2
    /\ IsException(LastTurn)
    /\ function_calls_made # <<>>
    /\ DOMAIN result = {}

(***************************************************************************)
(* C16. The orchestrator never retries a model invocation: when the k-th   *)
(* invocation of a request raises, the request has failed with exactly k   *)
(* invocations issued, and no invocation is issued after it.               *)
(***************************************************************************)
C16_NoRetry ==
    /\ \A k \in 1..Len(turns) : turns[k].kind = "raise" =>
           /\ pc = "failed"
           /\ invocations = k
           /\ Len(turns) = k
    /\ pc = "failed" => ~ENABLED InvokeModel

\* The third invocation of a request raised.
C16_Witness ==
    /\ Len(turns) = 3
    /\ turns[3].kind = "raise"
    /\ invocations = 3
    /\ pc = "failed"

(***************************************************************************)
(* C17, as claimed. A request with malformed input (an empty or            *)
(* whitespace-only message, a new uploaded file larger than 10MB) is       *)
(* rejected by the service, and the provider is invoked zero times for it. *)
(* (An upload whose type is neither image nor audio is rejected by the     *)
(* endpoint, before the service is called.)                                *)
(***************************************************************************)
C17_MalformedInputRejected ==
    (/\ pc \in {"call_model", "execute", "finish", "done", "failed"}
     /\ \/ StripIsEmpty(request.message)
        \/ \E i \in NewUploads : request.files[i].content.size > 10 * 1024 * 1024)
        => (pc = "failed" /\ invocations = 0 /\ turns = <<>>)

(***************************************************************************)
(* Vocabulary of C18 and C19.                                              *)
(***************************************************************************)
\* The exception the service raised, as the endpoint's try body sees it.
GeminiServiceError == Exc("GeminiServiceError", error)

\* The detail of the generic response.
InternalServerError == "Internal server error"

\* The texts of the provider's errors.
ProviderErrorTexts ==
    { response.message : response \in { r \in ProviderResponses : r.kind = "raise" } }

C19_RejectionNamesCause ==
    pc = "responded" =>
        LET unsupported ==
                { i \in 1..Len(form.files) :
                    /\ form.files[i].filename # ""
                    /\ ~MimeStartsWith(form.files[i].content_type, "image")
                    /\ ~MimeStartsWith(form.files[i].content_type, "audio") }
        IN  /\ ~form.conversation_history.json =>
                   http_response.message = "Invalid conversation history format"
            /\ (form.conversation_history.json /\ unsupported # {}) =>
                   \E i \in unsupported :
                       http_response.message = "Unsupported file type: "
                           \o ContentTypeText(form.files[i].content_type)
            /\ (\/ ~form.conversation_history.json
                \/ unsupported # {}
                \/ _get_model_name(form.model).raised) =>
                   http_response.message # InternalServerError

(***************************************************************************)
(* C20, as claimed. A model invocation does not block other requests:      *)
(* while the invocation of one request is outstanding, another request on  *)
(* the same event loop that has not ended can take a step.                 *)
(***************************************************************************)
C20_InvocationDoesNotBlock ==
    \A a, b \in TaskIds :
        (/\ a # b
         /\ tasks[a].pc = "in_model"
         /\ tasks[b].pc \notin {"done", "failed"})
            => ENABLED LoopStep(b)


(***************************************************************************)
(* C25, as claimed. Every binary part of the content sent to the provider  *)
(* holds at most 10*1024*1024 bytes, whether its file was attached through *)
(* a history attachment matched by filename or as a new file of the new    *)
(* message.                                                                *)
(***************************************************************************)
C25_BinaryPartsWithinLimit ==
    \A n \in 1..Len(sent) :
        \A i \in 1..Len(sent[n]) :
            \A k \in 1..Len(sent[n][i].parts) :
                sent[n][i].parts[k].kind = "bytes"
                    => sent[n][i].parts[k].data.size <= 10 * 1024 * 1024


\* s is a prefix of t.
IsPrefix(s, t) == Len(s) <= Len(t) /\ SubSeq(t, 1, Len(s)) = s

\* A user-role entry made of function responses only.
IsToolResultTurn(entry) ==
    /\ entry.role = "user"
    /\ entry.parts # <<>>
    /\ \A k \in 1..Len(entry.parts) : entry.parts[k].kind = "function_response"

\* The content passed to the first invocation: the formatted history, then
\* one user entry that starts with the text of the new message.
InitialContentAsClaimed ==
    sent # <<>> =>
        LET first == sent[1]
        IN  /\ Len(first) >= 1
            /\ SubSeq(first, 1, Len(first) - 1)
                   = FormatHistory(request.conversation_history, file_content_map)
            /\ first[Len(first)].role = "user"
            /\ first[Len(first)].parts[1] = TextPart(request.message)

\* The content of invocation i+1 is the content of invocation i, the
\* model's turn i as it came, and one tool-result turn.
ExtendedByTwoEntries ==
    \A i \in 1..(Len(sent) - 1) :
        /\ Len(sent[i + 1]) = Len(sent[i]) + 2
        /\ SubSeq(sent[i + 1], 1, Len(sent[i])) = sent[i]
        /\ sent[i + 1][Len(sent[i]) + 1] = [role |-> "model", parts |-> turns[i].parts]
        /\ IsToolResultTurn(sent[i + 1][Len(sent[i]) + 2])

(***************************************************************************)
(* C23. The content of a request is append-only: the content of the first  *)
(* invocation is the formatted history followed by one user entry whose    *)
(* first part is the text of the new message; the content of invocation    *)
(* i+1 is the content of invocation i extended by exactly two entries, the *)
(* model's turn with its parts unchanged and then one user-role            *)
(* tool-result turn; and no step changes or removes an entry that the      *)
(* content already holds.                                                  *)
(***************************************************************************)
C23_ContentAppendOnly ==
    /\ [](InitialContentAsClaimed /\ ExtendedByTwoEntries)
    /\ [][IsPrefix(contents, contents')]_vars

\* Three invocations have taken place, the second and the third after
\* turns with tool calls, one of them with text between the calls.
C23_Witness ==
    /\ Len(sent) = 3
    /\ Len(sent[3]) = Len(sent[1]) + 4
    /\ \E i \in 1..2 : \E k \in 1..Len(turns[i].parts) : turns[i].parts[k].kind = "text"
    /\ request.conversation_history # <<>>


\* The tool-call parts of a turn, in the order of its parts.
CallPartsOf(turn) == SelectSeq(turn.parts, LAMBDA q : q.kind = "function_call")

\* A step that executes a tool call executes the first call of the turn
\* in hand that has no response yet, and nothing else moves.
ExecutesNextPart ==
    Len(function_calls_made') = Len(function_calls_made) + 1 =>
        LET calls == CallPartsOf(LastTurn)
            k == Len(function_responses) + 1
        IN  /\ pc = "execute" /\ pc' = "execute"
            /\ k <= Len(calls)
            /\ function_calls_made'[Len(function_calls_made')].name = calls[k].name
            /\ function_calls_made'[Len(function_calls_made')].arguments = calls[k].args
            /\ Len(function_responses') = k
            /\ function_responses'[k].name = calls[k].name
            /\ UNCHANGED <<invocations, turns, contents, sent>>

\* A step that invokes the model after an earlier turn finds every tool
\* call of that turn executed and the results, in the order of the parts,
\* as the last entry of the content.
InvokesAfterResults ==
    (invocations' = invocations + 1 /\ turns # <<>>) =>
        LET calls == CallPartsOf(LastTurn)
            last == contents[Len(contents)]
        IN  /\ pc = "call_model"
            /\ calls # <<>>
            /\ Len(function_responses) = Len(calls)
            /\ IsToolResultTurn(last)
            /\ Len(last.parts) = Len(calls)
            /\ \A k \in 1..Len(calls) :
                /\ last.parts[k].name = calls[k].name
                /\ last.parts[k].response = function_responses[k].response
                /\ last.parts[k].response
                       = function_calls_made[Len(function_calls_made)
                                                - Len(calls) + k].result
            /\ contents[Len(contents) - 1] = [role |-> "model", parts |-> LastTurn.parts]
            /\ UNCHANGED function_calls_made

(***************************************************************************)
(* C22. Within one request the model invocations and the tool executions   *)
(* are strictly sequential: an invocation and an execution are never both  *)
(* possible at the same time, the tool calls of a turn are executed in     *)
(* the order of their parts, and invocation i+1 starts only after every    *)
(* tool call of iteration i has been executed and its result appended to   *)
(* the content.                                                            *)
(***************************************************************************)
C22_StrictlySequential ==
    /\ [](~(ENABLED InvokeModel /\ ENABLED ExecuteFunction))
    /\ [](ENABLED InvokeModel => ~ENABLED AppendFunctionResponses)
    /\ [][ExecutesNextPart /\ InvokesAfterResults]_vars

\* The third invocation is about to start after a turn with three tool
\* calls between text.
C22_Witness ==
    /\ pc = "call_model"
    /\ Len(turns) = 2
    /\ Len(CallPartsOf(LastTurn)) = 3
    /\ Len(function_calls_made) >= 4


\* The tool-result turn of iteration j is in the content passed to
\* invocation n.
FedBackAt(j, n) ==
    /\ n > j
    /\ n <= Len(sent)
    /\ Len(sent[n]) >= Len(sent[j]) + 2
    /\ IsToolResultTurn(sent[n][Len(sent[j]) + 2])
    /\ Len(sent[n][Len(sent[j]) + 2].parts) = Len(CallPartsOf(turns[j]))

\* The tool calls of iteration j have been executed and their results
\* appended to the content of the request.
ResultsAppended(j) ==
    /\ Len(contents) >= Len(sent[j]) + 2
    /\ IsToolResultTurn(contents[Len(sent[j]) + 2])
    /\ Len(contents[Len(sent[j]) + 2].parts) = Len(CallPartsOf(turns[j]))

(***************************************************************************)
(* C24, as claimed. When a request returns successfully, every iteration   *)
(* whose tool calls were executed was followed by a model invocation whose *)
(* content includes the tool-result turn of that iteration.                *)
(***************************************************************************)
C24_EveryResultFedBack ==
    pc = "done" =>
        \A j \in 1..Len(turns) :
            HasCalls(turns[j]) => \E n \in 1..Len(sent) : FedBackAt(j, n)

(***************************************************************************)
(* C24, amended. When a request returns successfully, the tool-result turn *)
(* of every iteration whose tool calls were executed is in the content,    *)
(* and the next invocation, whose content includes it, has taken place,    *)
(* except for the last iteration of the budget: after the tool calls of    *)
(* iteration max_function_calls the model is not invoked again, and the    *)
(* request returns the fallback message with the records of those calls.   *)
(***************************************************************************)
C24_FedBackWithinBudget ==
    pc = "done" =>
        \A j \in 1..Len(turns) :
            HasCalls(turns[j]) =>
                /\ ResultsAppended(j)
                /\ j < request.max_function_calls => FedBackAt(j, j + 1)
                /\ j = request.max_function_calls =>
                      /\ Len(sent) = j
                      /\ result.message = Fallback
                      /\ Len(result.function_calls) = Len(CallsOf(turns, j))

\* The request returned after a budget of two or more iterations was used
\* up by turns with tool calls: the results of the earlier iterations were
\* fed back, those of the last one were not.
C24_Witness ==
    /\ pc = "done"
    /\ Exhausted
    /\ Len(turns) >= 2
    /\ FedBackAt(1, 2)
    /\ ~(\E n \in 1..Len(sent) : FedBackAt(Len(turns), n))


\* The request of the form is well-formed: a message that is not blank, a
\* history of at most 50 valid messages, named files of the allowed types,
\* a model the resolver knows, and a budget within 1..10.
WellFormed(f) ==
    /\ ~StripIsEmpty(f.message)
    /\ f.conversation_history.json
    /\ Len(f.conversation_history.value) <= MaxHistoryLength
    /\ \A i \in 1..Len(f.conversation_history.value) :
           ValidChatMessage(f.conversation_history.value[i])
    /\ \A i \in 1..Len(f.files) :
           f.files[i].filename # "" /\ f.files[i].content_type \in allowed_types
    /\ ~_get_model_name(f.model).raised
    /\ f.max_function_calls \in 1..MaxFunctionCallsLimit

(***************************************************************************)
(* C26, as claimed. Once the chat endpoint has handled a well-formed       *)
(* request, with or without a system prompt, it has handed the message,    *)
(* the history, the model, the budget and the files of the form to the     *)
(* orchestrator and has raised no exception of its own.                    *)
(***************************************************************************)
C26_WellFormedHandedOver ==
    (pc # "chat" /\ WellFormed(form)) =>
        /\ pc # "responded"
        /\ http_response = NoResponse
        /\ request = ChatRequest(form.message, form.conversation_history.value,
                                 form.model, form.max_function_calls, form.files)


\* The frame of a request that runs alone, once its files are read and
\* its content is formed, or it has failed on the way.
AloneStart(req) ==
    IF StripIsEmpty(req.message)
    THEN [NewFrame EXCEPT !.error = ServiceError("Message cannot be empty")]
    ELSE LET fmap == BuildFileContentMap(req.files, EmptyMap)
             read == [NewFrame EXCEPT !.file_content_map = fmap]
         IN  IF InitialContents(req).raised
             THEN [read EXCEPT !.error = ServiceError(InitialContents(req).message)]
             ELSE [read EXCEPT !.contents = InitialContents(req).value]

\* The frame of a request that runs alone, after the first n of these
\* answers of the provider and of the tools.
RECURSIVE AloneAfter(_, _, _)
AloneAfter(req, answers, n) ==
    IF n = 0 THEN AloneStart(req)
    ELSE AfterAnswer(AloneAfter(req, answers, n - 1),
                     answers[n].response, answers[n].outcomes)

\* The frame of a request that runs alone, at this position.
Alone(task) ==
    LET frame == AloneAfter(task.request, task.answers, Len(task.answers))
    IN  IF task.pc = "done" THEN Finished(frame, task.request) ELSE frame

\* The request has read its files.
PastReading(task) == task.pc \in {"call_model", "in_model", "done", "failed"}

(***************************************************************************)
(* C21. Two requests on the shared GeminiService are independent under     *)
(* every interleaving: once a request has read its files, its content, its *)
(* function-call list, its result and its error are those of the same      *)
(* request run alone with the same answers of the provider and the tools;  *)
(* before that it has no content, no records and no result, and its file   *)
(* map holds only its own uploads.                                         *)
(***************************************************************************)
C21_RequestsIndependent ==
    \A t \in TaskIds :
        LET frame == frames[FrameOf(t)]
        IN  /\ PastReading(tasks[t]) => frame = Alone(tasks[t])
            /\ ~PastReading(tasks[t]) =>
                  /\ frame.contents = <<>>
                  /\ frame.function_calls_made = <<>>
                  /\ frame.result = <<>>
                  /\ \A name \in DOMAIN frame.file_content_map :
                        \E i \in 1..Len(tasks[t].request.files) :
                            /\ tasks[t].request.files[i].filename = name
                            /\ tasks[t].request.files[i].content
                                   = frame.file_content_map[name].content

\* The first request is suspended in the middle of reading its two files
\* while the second, started after it, has run to its end with two tool
\* calls recorded.
C21_Witness ==
    /\ tasks[1].pc = "suspended"
    /\ DOMAIN frames[1].file_content_map = {"a.png"}
    /\ Len(tasks[1].request.files) = 2
    /\ tasks[2].pc = "done"
    /\ Len(frames[2].result.function_calls) = 2
    /\ Len(tasks[2].request.files) = 1

====
